---- MODULE Spec2Model ----
(***************************************************************************)
(* Loan Management System (Flask + MySQL): accounts, loans, payments, the  *)
(* EMI calculator, the SMS notification dispatcher and the admin reset     *)
(* tool, modelled as a state machine.                                      *)
(*                                                                         *)
(* Units: money is held in cents (the DECIMAL(14,2) columns), an annual    *)
(* rate in whole percent, a term in months.  A form field is a sequence:   *)
(* <<>> for a missing/empty field, <<v>> for a field holding v.            *)
(* Floating-point evaluation is modelled by exact rational arithmetic;     *)
(* where the exact value lies half-way between two cents the float result  *)
(* may be either neighbour, which is an input (tie) of the calculator.     *)
(***************************************************************************)
EXTENDS Integers, Sequences, FiniteSets, TLC

VARIABLES users, loans, payments, session, thread,
          SMS_NOTIFICATIONS_ENABLED, TWILIO_CONFIGURED

vars == <<users, loans, payments, session, thread,
          SMS_NOTIFICATIONS_ENABLED, TWILIO_CONFIGURED>>

\* ---------------------------------------------------------------- bounds
MaxUsers == 2
MaxLoans == 1
MaxPayments == 2
NumThreads == 2
MaxTerm == 3
MaxPrincipal == 30

\* the browser sessions (cookie jars) and the server's request threads
Clients == {"browser"}
Threads == 1..NumThreads

\* ---------------------------------------------------------------- inputs
NameInputs == {"", "Asha"}
EmailInputs == {"", "a@x.io", "A@x.io", "b@x.io"}
PasswordInputs == {"", "pw1"}
LoginPasswords == {"pw1", "pw2"}
AdminEmails == {"admin@example.com", "a@x.io"}
AdminPasswords == {"pw2"}
PhoneInputs == {" ", "+15550100"}
PrincipalInputs == {<<2>>}
WidePrincipalInputs == {<<p>> : p \in 0..MaxPrincipal}
RateInputs == {<<0>>, <<60>>, <<100>>}
TermInputs == {<<>>, <<-1>>, <<0>>, <<1>>}
WideTermInputs == {<<>>} \cup {<<n>> : n \in (-1)..MaxTerm}
LoanIdInputs == {<<>>} \cup {<<i>> : i \in 1..MaxLoans}
AmountInputs == {<<>>, <<1>>, <<2>>}
DateInputs == {"", "2024-01-15", "2024-13-45"}
TieInputs == {0, 1}
TransportInputs == {"sent", "exception"}

\* ---------------------------------------------------------------- strings
\* str.lower() on the modelled e-mail strings
Lower(s) == IF s = "A@x.io" THEN "a@x.io" ELSE s

\* str.strip() on the modelled strings
Strip(s) == IF s = " " THEN "" ELSE s

\* werkzeug generate_password_hash / check_password_hash
generate_password_hash(password) == <<"hash", password>>

check_password_hash(pwhash, password) == pwhash = <<"hash", password>>

\* ---------------------------------------------------------------- store
\* comparison of the users.email UNIQUE index and of "email = %s"
\* (MySQL's default collations are case-insensitive)
Collate(e) == Lower(e)

EmailTaken(us, email, except_id) ==
    \E i \in 1..Len(us) : i # except_id /\ Collate(us[i].email) = Collate(email)

\* (mutant) the users table without the UNIQUE index on email
InsertUserNoUnique(us, name, email, password_hash, role) ==
    [ok |-> TRUE,
     users |-> Append(us, [name |-> name, email |-> email,
                           password_hash |-> password_hash, role |-> role])]

\* INSERT INTO users: the row appended, or IntegrityError on a duplicate email
InsertUser(us, name, email, password_hash, role) ==
    IF EmailTaken(us, email, 0)
    THEN [ok |-> FALSE, users |-> us]
    ELSE [ok |-> TRUE,
          users |-> Append(us, [name |-> name, email |-> email,
                                password_hash |-> password_hash, role |-> role])]

\* SELECT * FROM users WHERE email = %s AND role = <role>; 0 for no row
FindUser(us, email, role) ==
    IF \E i \in 1..Len(us) : Collate(us[i].email) = Collate(email) /\ us[i].role = role
    THEN CHOOSE i \in 1..Len(us) : Collate(us[i].email) = Collate(email) /\ us[i].role = role
    ELSE 0

\* ---------------------------------------------------------------- threads
NoNotif == [called |-> FALSE, raised |-> FALSE, success |-> FALSE, message |-> "",
            transport |-> ""]

Idle == [pc |-> "idle", kind |-> "", user |-> 0, conns |-> 0, email |-> "",
         flash |-> "", level |-> "", out |-> "", error |-> "",
         loan_id |-> 0, amount |-> 0, payment_date |-> "", phone |-> "",
         principal |-> <<>>, annual_rate |-> <<>>, term_months |-> <<>>,
         emi |-> 0, term |-> 0, row_id |-> 0, total_paid |-> 0, remaining |-> 0,
         notif |-> NoNotif]

\* a finished request: the response (flash message, its category, what is returned)
Respond(kind, user, flash, level, out) ==
    [Idle EXCEPT !.pc = "done", !.kind = kind, !.user = user,
                 !.flash = flash, !.level = level, !.out = out]

\* (mutant) without a session identity the first account is taken
current_user_first_account(c) ==
    IF session[c].user_id \in 1..Len(users) THEN session[c].user_id
    ELSE IF Len(users) >= 1 THEN 1 ELSE 0

\* current_user(): the id of the logged-in account's row, 0 for None
current_user(c) ==
    IF session[c].user_id = 0 THEN 0
    ELSE IF session[c].user_id \in 1..Len(users) THEN session[c].user_id ELSE 0

NoSession == [user_id |-> 0, role |-> ""]

\* ---------------------------------------------------------------- accounts
register_borrower(t, name_in, email_in, password) ==
    /\ thread[t].pc = "idle"
    /\ LET name == Strip(name_in)
           email == Lower(Strip(email_in))
       IN IF name = "" \/ email = "" \/ password = ""
          THEN /\ thread' = [thread EXCEPT ![t] =
                     Respond("register", 0, "All fields required.", "danger", "redirect:register")]
               /\ UNCHANGED users
          ELSE LET r == InsertUser(users, name, email,
                                   generate_password_hash(password), "user")
               IN /\ r.ok => Len(users) < MaxUsers
                  /\ users' = r.users
                  /\ thread' = [thread EXCEPT ![t] =
                        IF r.ok
                        THEN [Respond("register", 0,
                                 "Registration successful. You may login now.",
                                 "success", "redirect:home") EXCEPT !.email = email]
                        ELSE [Respond("register", 0, "Email already registered.",
                                 "danger", "redirect:home") EXCEPT !.email = email]]
    /\ UNCHANGED <<loans, payments, session, 
                   SMS_NOTIFICATIONS_ENABLED, TWILIO_CONFIGURED>>

Login(t, c, email_in, password, role, okmsg, badmsg, kind) ==
    /\ thread[t].pc = "idle"
    /\ LET email == Lower(Strip(email_in))
           u == FindUser(users, email, role)
       IN IF u # 0 /\ check_password_hash(users[u].password_hash, password)
          THEN /\ session' = [session EXCEPT ![c] =
                                 [user_id |-> u, role |-> users[u].role]]
               /\ thread' = [thread EXCEPT ![t] =
                                 Respond(kind, u, okmsg, "success", "redirect:home")]
          ELSE /\ UNCHANGED session
               /\ thread' = [thread EXCEPT ![t] =
                                 Respond(kind, 0, badmsg, "danger", "redirect:login")]
    /\ UNCHANGED <<users, loans, payments, 
                   SMS_NOTIFICATIONS_ENABLED, TWILIO_CONFIGURED>>

user_login(t, c, email_in, password) ==
    Login(t, c, email_in, password, "user",
          "Login successful.", "Invalid credentials.", "user_login")

admin_login(t, c, email_in, password) ==
    Login(t, c, email_in, password, "admin",
          "Admin login successful.", "Invalid admin credentials.", "admin_login")

logout(t, c) ==
    /\ thread[t].pc = "idle"
    /\ session' = [session EXCEPT ![c] = NoSession]
    /\ thread' = [thread EXCEPT ![t] =
                     Respond("logout", 0, "Logged out.", "info", "redirect:home")]
    /\ UNCHANGED <<users, loans, payments, 
                   SMS_NOTIFICATIONS_ENABLED, TWILIO_CONFIGURED>>

\* reset_admin.py main(): update the existing admin's password and email, or
\* insert a new admin; a MySQL error (duplicate email) leaves the table as it was
FindAdmin(us) ==
    IF \E i \in 1..Len(us) : us[i].role = "admin"
    THEN CHOOSE i \in 1..Len(us) :
             us[i].role = "admin" /\ \A j \in 1..(i - 1) : us[j].role # "admin"
    ELSE 0

\* (mutant) a reset tool that makes the account with the given email the admin
reset_admin_promote(email, password) ==
    /\ LET u == IF \E i \in 1..Len(users) : Collate(users[i].email) = Collate(email)
                THEN CHOOSE i \in 1..Len(users) :
                         Collate(users[i].email) = Collate(email)
                ELSE 0
           password_hash == generate_password_hash(password)
       IN IF u # 0
          THEN users' = [users EXCEPT ![u].password_hash = password_hash,
                                      ![u].role = "admin"]
          ELSE LET r == InsertUser(users, "Administrator", email,
                                   password_hash, "admin")
               IN /\ r.ok => Len(users) < MaxUsers
                  /\ users' = r.users
    /\ UNCHANGED <<loans, payments, session, thread,
                   SMS_NOTIFICATIONS_ENABLED, TWILIO_CONFIGURED>>

reset_admin(email, password) ==
    /\ LET admin == FindAdmin(users)
           password_hash == generate_password_hash(password)
       IN IF admin # 0
          THEN users' = IF EmailTaken(users, email, admin)
                        THEN users
                        ELSE [users EXCEPT ![admin].password_hash = password_hash,
                                           ![admin].email = email]
          ELSE LET r == InsertUser(users, "Administrator", email,
                                   password_hash, "admin")
               IN /\ r.ok => Len(users) < MaxUsers
                  /\ users' = r.users
    /\ UNCHANGED <<loans, payments, session, thread, 
                   SMS_NOTIFICATIONS_ENABLED, TWILIO_CONFIGURED>>

\* the response has been sent; the handler's locals are gone
Return(t) ==
    /\ thread[t].pc \in {"done", "error"}
    /\ thread' = [thread EXCEPT ![t] = Idle]
    /\ UNCHANGED <<users, loans, payments, session, 
                   SMS_NOTIFICATIONS_ENABLED, TWILIO_CONFIGURED>>

\* ---------------------------------------------------------------- EMI
RECURSIVE GCD(_, _)
GCD(a, b) == IF b = 0 THEN a ELSE GCD(b, a % b)

RECURSIVE Pow(_, _)
Pow(b, e) == IF e = 0 THEN 1 ELSE b * Pow(b, e - 1)

Abs(x) == IF x < 0 THEN -x ELSE x

\* (mutant) truncation towards minus infinity instead of rounding
FloorDiv(num, den, tie) ==
    (IF den < 0 THEN -num ELSE num) \div Abs(den)

\* round(num/den, 2) in cents: the nearest cent; an exact half goes to either
\* neighbour (tie = 0 down, tie = 1 up), as the binary float decides
RoundDiv(num, den, tie) ==
    LET a == IF den < 0 THEN -num ELSE num
        b == Abs(den)
        q == a \div b
        r == a - q * b
    IN IF 2 * r < b THEN q ELSE IF 2 * r > b THEN q + 1 ELSE q + tie

Raised(e) == [ok |-> FALSE, error |-> e, value |-> 0]

Returned(v) == [ok |-> TRUE, error |-> "", value |-> v]

\* (mutant) a calculator that answers 0 for a term of 0 months
calculate_emi_guarded(principal, annual_rate_percent, term_months, tie) ==
    IF principal = <<>> \/ annual_rate_percent = <<>> \/ term_months = <<>>
    THEN Raised("TypeError")
    ELSE IF term_months[1] = 0 THEN Returned(0)
    ELSE LET P == principal[1]
             R == annual_rate_percent[1]
             n == term_months[1]
             g == GCD(Abs(R), 12 * 100)
             rn == R \div g
             rd == (12 * 100) \div g
             xn == IF n >= 0 THEN Pow(rd + rn, n) ELSE Pow(rd, -n)
             xd == IF n >= 0 THEN Pow(rd, n) ELSE Pow(rd + rn, -n)
         IN IF R = 0 THEN Returned(RoundDiv(P, n, tie))
            ELSE Returned(RoundDiv(P * rn * xn, rd * (xn - xd), tie))

\* calculate_emi: the monthly rate r = R/12/100 is the fraction rn/rd, and
\* (1+r)^n the fraction xn/xd, so emi = P*rn*xn / (rd*(xn - xd))
calculate_emi(principal, annual_rate_percent, term_months, tie) ==
    IF principal = <<>> \/ annual_rate_percent = <<>> \/ term_months = <<>>
    THEN Raised("TypeError")
    ELSE LET P == principal[1]
             R == annual_rate_percent[1]
             n == term_months[1]
             g == GCD(Abs(R), 12 * 100)
             rn == R \div g
             rd == (12 * 100) \div g
             xn == IF n >= 0 THEN Pow(rd + rn, n) ELSE Pow(rd, -n)
             xd == IF n >= 0 THEN Pow(rd, n) ELSE Pow(rd + rn, -n)
             numerator == P * rn * xn
             denominator == rd * (xn - xd)
         IN IF R = 0
            THEN IF n = 0 THEN Raised("ZeroDivisionError")
                 ELSE Returned(RoundDiv(P, n, tie))
            ELSE IF denominator = 0 THEN Raised("ZeroDivisionError")
                 ELSE Returned(RoundDiv(numerator, denominator, tie))

\* ---------------------------------------------------------------- SMS
\* Client(...).messages.create(...): the gateway call, which may raise
messages_create(transport) ==
    IF transport = "sent"
    THEN [raised |-> FALSE, sid |-> "SM1"]
    ELSE [raised |-> TRUE, sid |-> ""]

Notif(success, message) ==
    [called |-> TRUE, raised |-> FALSE, success |-> success, message |-> message,
     transport |-> ""]

\* (mutant) the gateway call outside any try/except
send_loan_notification_unguarded(enabled, configured, transport) ==
    IF ~enabled THEN Notif(TRUE, "SMS notifications disabled (test mode)")
    ELSE IF ~configured
    THEN Notif(FALSE, "Twilio credentials not configured. Set TWILIO_ACCOUNT_SID, TWILIO_AUTH_TOKEN, and TWILIO_PHONE_NUMBER environment variables.")
    ELSE IF messages_create(transport).raised
    THEN [Notif(FALSE, "") EXCEPT !.raised = TRUE]
    ELSE Notif(TRUE, "SMS sent successfully")

send_loan_notification(enabled, configured, transport) ==
    IF ~enabled THEN Notif(TRUE, "SMS notifications disabled (test mode)")
    ELSE IF ~configured
    THEN Notif(FALSE, "Twilio credentials not configured. Set TWILIO_ACCOUNT_SID, TWILIO_AUTH_TOKEN, and TWILIO_PHONE_NUMBER environment variables.")
    ELSE IF messages_create(transport).raised
    THEN Notif(FALSE, "Failed to send SMS")
    ELSE Notif(TRUE, "SMS sent successfully")

send_payment_notification(enabled, configured, transport) ==
    IF ~enabled THEN Notif(TRUE, "SMS notifications disabled (test mode)")
    ELSE IF ~configured THEN Notif(FALSE, "Twilio credentials not configured.")
    ELSE IF messages_create(transport).raised
    THEN Notif(FALSE, "Failed to send SMS")
    ELSE Notif(TRUE, "SMS sent successfully")

\* ---------------------------------------------------------------- ledger
\* annual_rate DECIMAL(5,3): an out-of-range value is rejected by the INSERT
RateFits(annual_rate) == annual_rate > -100 /\ annual_rate < 100

\* payment_date DATE: a string that is no calendar date is rejected by the INSERT
IsDate(payment_date) == payment_date = "2024-01-15"

\* INSERT INTO loans ... ; conn.commit()
InsertLoan(ls, row) == Append(ls, row)

\* (mutant) the new payment written over the latest row of the table
InsertPaymentOverwrite(ps, row) ==
    IF Len(ps) = 0 THEN Append(ps, row) ELSE [ps EXCEPT ![Len(ps)] = row]

\* (mutant) the INSERT executed twice
InsertPaymentTwice(ps, row) == Append(Append(ps, row), row)

\* INSERT INTO payments ... ; conn.commit()
InsertPayment(ps, row) == Append(ps, row)

\* SELECT * FROM payments WHERE loan_id = %s, as the indices of the rows
PaymentsOf(ps, loan_id) == {i \in 1..Len(ps) : ps[i].loan_id = loan_id}

RECURSIVE SumAmounts(_, _)
SumAmounts(ps, idx) ==
    IF idx = {} THEN 0
    ELSE LET i == CHOOSE j \in idx : TRUE
         IN ps[i].amount + SumAmounts(ps, idx \ {i})

\* (mutant) the payments of every loan added up, the WHERE loan_id = %s left out
total_paid_any_loan(ps, loan_id) == SumAmounts(ps, 1..Len(ps))

\* sum([float(p['amount']) for p in payments]) if payments else 0.0
total_paid(ps, loan_id) == SumAmounts(ps, PaymentsOf(ps, loan_id))

total_payable(emi, term_months) == emi * term_months

Remaining(ps, loan_id, emi, term_months) ==
    total_payable(emi, term_months) - total_paid(ps, loan_id)

\* (mutant) the test left out
AuthorizedAll(loan, user_id) == TRUE

\* the owner-or-admin test of loan_download and payment_entry
Authorized(loan, user_id) ==
    ~((loan.borrower_id # user_id) /\ (users[user_id].role # "admin"))

FrameLoans == UNCHANGED <<users, payments, session,
                          SMS_NOTIFICATIONS_ENABLED, TWILIO_CONFIGURED>>

FramePayments == UNCHANGED <<users, loans, session,
                             SMS_NOTIFICATIONS_ENABLED, TWILIO_CONFIGURED>>

FrameThread == UNCHANGED <<users, loans, payments, session,
                           SMS_NOTIFICATIONS_ENABLED, TWILIO_CONFIGURED>>

\* create_loan, POST, up to the committed INSERT and conn.close()
create_loan(t, c, principal, annual_rate, term_months, phone, tie) ==
    /\ thread[t].pc = "idle"
    /\ LET user == current_user(c)
           e == calculate_emi(principal, annual_rate, term_months, tie)
       IN IF user = 0
          THEN /\ thread' = [thread EXCEPT ![t] =
                     Respond("create_loan", 0, "Please log in to create a loan.",
                             "warning", "redirect:login")]
               /\ UNCHANGED loans
          ELSE IF ~e.ok
          THEN /\ thread' = [thread EXCEPT ![t] =
                     [Respond("create_loan", user, "Error calculating EMI",
                              "danger", "redirect:create_loan") EXCEPT
                         !.error = e.error,
                         !.principal = principal, !.annual_rate = annual_rate,
                         !.term_months = term_months]]
               /\ UNCHANGED loans
          ELSE IF ~RateFits(annual_rate[1])
          THEN \* cursor.execute raises: lines 248-250 are skipped
               /\ thread' = [thread EXCEPT ![t] =
                     [Respond("create_loan", user, "", "", "500") EXCEPT
                         !.pc = "error", !.conns = 1,
                         !.principal = principal, !.annual_rate = annual_rate,
                         !.term_months = term_months]]
               /\ UNCHANGED loans
          ELSE /\ Len(loans) < MaxLoans
               /\ loans' = InsertLoan(loans,
                     [borrower_id |-> user, principal |-> principal[1],
                      annual_rate |-> annual_rate[1],
                      term_months |-> term_months[1], emi |-> e.value])
               /\ thread' = [thread EXCEPT ![t] =
                     [Idle EXCEPT !.pc = "cl_notify", !.kind = "create_loan",
                                  !.user = user, !.phone = phone,
                                  !.emi = e.value, !.row_id = Len(loans) + 1]]
    /\ FrameLoans

\* (mutant) a failed SMS undoes the loan INSERT
create_loan_notify_rollback(t, transport) ==
    /\ thread[t].pc = "cl_notify"
    /\ LET n == send_loan_notification(SMS_NOTIFICATIONS_ENABLED,
                                       TWILIO_CONFIGURED, transport)
           sms == Strip(thread[t].phone) # ""
       IN /\ thread' = [thread EXCEPT ![t] =
                [@ EXCEPT !.pc = "done", !.flash = "Loan created.",
                          !.notif = IF sms THEN [n EXCEPT !.transport = transport]
                                    ELSE NoNotif,
                          !.level = IF sms /\ ~n.success THEN "warning" ELSE "success",
                          !.out = "redirect:home"]]
          /\ loans' = IF sms /\ ~n.success
                      THEN SubSeq(loans, 1, Len(loans) - 1) ELSE loans
    /\ UNCHANGED <<users, payments, session,
                   SMS_NOTIFICATIONS_ENABLED, TWILIO_CONFIGURED>>

\* create_loan, lines 252-269: the optional SMS and the confirmation
create_loan_notify(t, transport) ==
    /\ thread[t].pc = "cl_notify"
    /\ LET n == send_loan_notification(SMS_NOTIFICATIONS_ENABLED,
                                       TWILIO_CONFIGURED, transport)
       IN thread' = [thread EXCEPT ![t] =
             IF Strip(thread[t].phone) # ""
             THEN [@ EXCEPT !.pc = "done", !.flash = "Loan created.",
                            !.notif = [n EXCEPT !.transport = transport],
                            !.level = IF n.success THEN "success" ELSE "warning",
                            !.out = "redirect:home"]
             ELSE [@ EXCEPT !.pc = "done", !.flash = "Loan created.",
                            !.level = "success", !.out = "redirect:home"]]
    /\ FrameThread

\* loan_view: the loan page with its payments and totals; no identity is required
loan_view(t, c, loan_id) ==
    /\ thread[t].pc = "idle"
    /\ LET user == current_user(c)
       IN thread' = [thread EXCEPT ![t] =
             IF loan_id \notin 1..Len(loans)
             THEN Respond("loan_view", user, "Loan not found.",
                          "danger", "redirect:home")
             ELSE [Respond("loan_view", user, "", "", "page:loan-view") EXCEPT
                      !.loan_id = loan_id,
                      !.emi = loans[loan_id].emi,
                      !.term = loans[loan_id].term_months,
                      !.total_paid = total_paid(payments, loan_id),
                      !.remaining = Remaining(payments, loan_id, loans[loan_id].emi,
                                              loans[loan_id].term_months)]]
    /\ FrameThread

\* loan_download: the statement of a loan for its owner or an admin
loan_download(t, c, loan_id) ==
    /\ thread[t].pc = "idle"
    /\ LET user == current_user(c)
       IN thread' = [thread EXCEPT ![t] =
             IF user = 0
             THEN Respond("loan_download", 0,
                          "Please log in to download loan details.",
                          "warning", "redirect:login")
             ELSE IF loan_id \notin 1..Len(loans)
             THEN Respond("loan_download", user, "Loan not found.",
                          "danger", "redirect:home")
             ELSE IF ~Authorized(loans[loan_id], user)
             THEN [Respond("loan_download", user,
                           "You are not authorized to download this loan.",
                           "danger", "redirect:home") EXCEPT !.loan_id = loan_id]
             ELSE [Respond("loan_download", user, "", "", "pdf")
                       EXCEPT !.loan_id = loan_id]]
    /\ FrameThread

\* payment_entry, lines 393-419: identity, required fields, loan, authorization
payment_entry(t, c, loan_id, amount, payment_date, phone) ==
    /\ thread[t].pc = "idle"
    /\ LET user == current_user(c)
       IN thread' = [thread EXCEPT ![t] =
             IF user = 0
             THEN Respond("payment_entry", 0, "Please login to enter payments.",
                          "warning", "redirect:login")
             ELSE IF loan_id = <<>> \/ amount = <<>> \/ payment_date = ""
             THEN Respond("payment_entry", user, "All payment fields are required.",
                          "danger", "redirect:home")
             ELSE IF loan_id[1] \notin 1..Len(loans)
             THEN Respond("payment_entry", user, "Loan not found.",
                          "danger", "redirect:home")
             ELSE IF ~Authorized(loans[loan_id[1]], user)
             THEN [Respond("payment_entry", user,
                           "You are not authorized to add payment for this loan.",
                           "danger", "redirect:home") EXCEPT !.loan_id = loan_id[1]]
             ELSE [Idle EXCEPT !.pc = "pe_insert", !.kind = "payment_entry",
                               !.user = user, !.conns = 1,
                               !.loan_id = loan_id[1], !.amount = amount[1],
                               !.payment_date = payment_date, !.phone = phone,
                               !.emi = loans[loan_id[1]].emi,
                               !.term = loans[loan_id[1]].term_months]]
    /\ FrameThread

\* (mutant) a payment on a loan with nothing left to pay is refused
payment_entry_insert_capped(t) ==
    /\ thread[t].pc = "pe_insert"
    /\ IF ~IsDate(thread[t].payment_date)
       THEN /\ thread' = [thread EXCEPT ![t] =
                             [@ EXCEPT !.pc = "error", !.out = "500"]]
            /\ UNCHANGED payments
       ELSE IF Remaining(payments, thread[t].loan_id,
                         thread[t].emi, thread[t].term) <= 0
       THEN /\ thread' = [thread EXCEPT ![t] =
                             [@ EXCEPT !.pc = "done", !.conns = 0,
                                       !.flash = "Loan already paid.",
                                       !.level = "danger", !.out = "redirect:home"]]
            /\ UNCHANGED payments
       ELSE /\ Len(payments) < MaxPayments
            /\ payments' = InsertPayment(payments,
                  [loan_id |-> thread[t].loan_id, amount |-> thread[t].amount])
            /\ thread' = [thread EXCEPT ![t] =
                             [@ EXCEPT !.pc = "pe_balance",
                                       !.row_id = Len(payments) + 1]]
    /\ FramePayments

\* payment_entry, lines 420-424: INSERT and commit
payment_entry_insert(t) ==
    /\ thread[t].pc = "pe_insert"
    /\ IF ~IsDate(thread[t].payment_date)
       THEN \* cursor.execute raises: conn.close() at line 451 is never reached
            /\ thread' = [thread EXCEPT ![t] =
                             [@ EXCEPT !.pc = "error", !.out = "500"]]
            /\ UNCHANGED payments
       ELSE /\ Len(payments) < MaxPayments
            /\ payments' = InsertPayment(payments,
                  [loan_id |-> thread[t].loan_id, amount |-> thread[t].amount])
            /\ thread' = [thread EXCEPT ![t] =
                             [@ EXCEPT !.pc = "pe_balance",
                                       !.row_id = Len(payments) + 1]]
    /\ FramePayments

\* payment_entry, lines 426-433: the remaining balance from a fresh SELECT
payment_entry_balance(t) ==
    /\ thread[t].pc = "pe_balance"
    /\ thread' = [thread EXCEPT ![t] =
          [@ EXCEPT !.pc = "pe_notify",
                    !.total_paid = total_paid(payments, thread[t].loan_id),
                    !.remaining = Remaining(payments, thread[t].loan_id,
                                            thread[t].emi, thread[t].term)]]
    /\ FrameThread

\* payment_entry, lines 435-452: the optional SMS, the confirmation, conn.close()
payment_entry_notify(t, transport) ==
    /\ thread[t].pc = "pe_notify"
    /\ LET n == send_payment_notification(SMS_NOTIFICATIONS_ENABLED,
                                          TWILIO_CONFIGURED, transport)
       IN thread' = [thread EXCEPT ![t] =
             IF Strip(thread[t].phone) # ""
             THEN [@ EXCEPT !.pc = "done", !.conns = 0,
                            !.notif = [n EXCEPT !.transport = transport],
                            !.flash = "Payment recorded.",
                            !.level = IF n.success THEN "success" ELSE "warning",
                            !.out = "redirect:loan_view"]
             ELSE [@ EXCEPT !.pc = "done", !.conns = 0,
                            !.flash = "Payment recorded.",
                            !.level = "success", !.out = "redirect:loan_view"]]
    /\ FrameThread

\* /calculate-emi: the stateless preview
ajax_calculate_emi(t, principal, annual_rate, term_months, tie) ==
    /\ thread[t].pc = "idle"
    /\ LET e == calculate_emi(principal, annual_rate, term_months, tie)
       IN thread' = [thread EXCEPT ![t] =
             [Respond("calculate_emi", 0, "", "",
                      IF e.ok THEN "json:emi" ELSE "json:error") EXCEPT
                  !.error = e.error,
                  !.principal = principal, !.annual_rate = annual_rate,
                  !.term_months = term_months, !.emi = e.value]]
    /\ FrameThread

\* ---------------------------------------------------------------- spec
Init ==
    /\ users = <<>>
    /\ loans = <<>>
    /\ payments = <<>>
    /\ session = [c \in Clients |-> NoSession]
    /\ thread = [t \in Threads |-> Idle]
    /\ SMS_NOTIFICATIONS_ENABLED \in BOOLEAN
    /\ TWILIO_CONFIGURED \in BOOLEAN

\* the requests the server handles one at a time
Requests(t) ==
    \/ \E n \in NameInputs, e \in EmailInputs, p \in PasswordInputs :
           register_borrower(t, n, e, p)
    \/ \E c \in Clients, e \in EmailInputs, p \in LoginPasswords :
           user_login(t, c, e, p)
    \/ \E c \in Clients, e \in AdminEmails, p \in LoginPasswords :
           admin_login(t, c, e, p)
    \/ \E c \in Clients : logout(t, c)
    \/ \E c \in Clients, p \in PrincipalInputs, r \in RateInputs,
          n \in TermInputs, ph \in PhoneInputs, tie \in TieInputs :
           create_loan(t, c, p, r, n, ph, tie)
    \/ \E tr \in TransportInputs : create_loan_notify(t, tr)
    \/ \E c \in Clients, l \in 1..MaxLoans : loan_view(t, c, l)
    \/ \E c \in Clients, l \in 1..MaxLoans : loan_download(t, c, l)
    \/ \E c \in Clients, l \in LoanIdInputs, a \in AmountInputs,
          d \in DateInputs, ph \in PhoneInputs :
           payment_entry(t, c, l, a, d, ph)
    \/ payment_entry_insert(t)
    \/ payment_entry_balance(t)
    \/ \E tr \in TransportInputs : payment_entry_notify(t, tr)
    \/ \E p \in PrincipalInputs, r \in RateInputs, n \in TermInputs,
          tie \in TieInputs :
           ajax_calculate_emi(t, p, r, n, tie)
    \/ Return(t)

Next ==
    \/ Requests(1)
    \/ \E e \in AdminEmails, p \in AdminPasswords : reset_admin(e, p)

Spec == Init /\ [][Next]_vars

\* the preview endpoint alone, over a wider range of principals and terms
NextEmi ==
    \/ \E p \in WidePrincipalInputs, r \in RateInputs, n \in WideTermInputs,
          tie \in TieInputs :
           ajax_calculate_emi(1, p, r, n, tie)
    \/ Return(1)

SpecEmi == Init /\ [][NextEmi]_vars

\* concurrent payment entries: one borrower and the loans set up by thread 1,
\* payments entered on every thread, with SMS notifications switched off
InitConc == Init /\ ~SMS_NOTIFICATIONS_ENABLED /\ ~TWILIO_CONFIGURED

NextConc ==
    \/ register_borrower(1, "Asha", "a@x.io", "pw1")
    \/ \E c \in Clients : user_login(1, c, "a@x.io", "pw1")
    \/ \E c \in Clients : create_loan(1, c, <<2>>, <<0>>, <<1>>, " ", 0)
    \/ create_loan_notify(1, "sent")
    \/ \E t \in Threads, c \in Clients, l \in 1..MaxLoans, a \in {1, 2} :
           payment_entry(t, c, <<l>>, <<a>>, "2024-01-15", "+15550100")
    \/ \E t \in Threads : payment_entry_insert(t)
    \/ \E t \in Threads : payment_entry_balance(t)
    \/ \E t \in Threads, tr \in TransportInputs : payment_entry_notify(t, tr)
    \/ \E t \in Threads : Return(t)

SpecConc == InitConc /\ [][NextConc]_vars

\* the balances of two loans of one borrower: the ledger as a registration, a
\* login and two create-loan requests leave it, then payments and loan views
InitBal ==
    /\ users = InsertUser(<<>>, "Asha", "a@x.io",
                          generate_password_hash("pw1"), "user").users
    /\ loans = InsertLoan(InsertLoan(<<>>,
                  [borrower_id |-> 1, principal |-> 2, annual_rate |-> 0,
                   term_months |-> 1,
                   emi |-> calculate_emi(<<2>>, <<0>>, <<1>>, 0).value]),
                  [borrower_id |-> 1, principal |-> 3, annual_rate |-> 0,
                   term_months |-> 1,
                   emi |-> calculate_emi(<<3>>, <<0>>, <<1>>, 0).value])
    /\ payments = <<>>
    /\ session = [c \in Clients |-> [user_id |-> 1, role |-> "user"]]
    /\ thread = [t \in Threads |-> Idle]
    /\ SMS_NOTIFICATIONS_ENABLED = FALSE
    /\ TWILIO_CONFIGURED = FALSE

NextBal ==
    \/ \E c \in Clients : logout(1, c)
    \/ \E c \in Clients : user_login(1, c, "a@x.io", "pw1")
    \/ \E c \in Clients, l \in 1..(Len(loans) + 1) : loan_view(1, c, l)
    \/ \E c \in Clients, l \in 1..Len(loans), a \in {1, 2} :
           payment_entry(1, c, <<l>>, <<a>>, "2024-01-15", " ")
    \/ payment_entry_insert(1)
    \/ payment_entry_balance(1)
    \/ \E tr \in TransportInputs : payment_entry_notify(1, tr)
    \/ Return(1)

SpecBal == InitBal /\ [][NextBal]_vars

\* ---------------------------------------------------------------- claims
DeniedMessages == {"You are not authorized to download this loan.",
                   "You are not authorized to add payment for this loan."}

\* the request on thread t (as its record r shows it) targets an existing loan
\* and was made by an account that is neither its owner nor an admin
Outsider(r) ==
    /\ r.kind \in {"payment_entry", "loan_download"}
    /\ r.user \in 1..Len(users)
    /\ r.loan_id \in 1..Len(loans)
    /\ loans[r.loan_id].borrower_id # r.user
    /\ users[r.user].role # "admin"

\* C1: a payment-entry or loan-download request by a logged-in account that is
\* neither the loan's owner nor an admin ends at once with the denial message:
\* no statement is returned, no payment row is inserted, and loans and
\* payments are exactly as before the request.
C1_OutsiderDenied ==
    [][\A t \in Threads :
          (thread'[t] # thread[t] /\ Outsider(thread'[t])) =>
              /\ thread[t].pc = "idle"
              /\ thread'[t].pc = "done"
              /\ thread'[t].flash \in DeniedMessages
              /\ thread'[t].out = "redirect:home"
              /\ thread'[t].row_id = 0
              /\ loans' = loans
              /\ payments' = payments
              /\ users' = users]_vars

C1_Witness ==
    \E t \in Threads :
        /\ thread[t].pc = "done"
        /\ Outsider(thread[t])
        /\ thread[t].kind = "payment_entry"
        /\ thread[t].flash \in DeniedMessages
        /\ Len(payments) > 0

\* C2: no two accounts share the same lower-cased email, and a registration
\* whose email is already used by an account answers "Email already
\* registered." and leaves the accounts unchanged.
C2_EmailUnique ==
    /\ [](\A i, j \in 1..Len(users) :
            i # j => Lower(users[i].email) # Lower(users[j].email))
    /\ [][\A t \in Threads :
            (thread[t].pc = "idle" /\ thread'[t].kind = "register"
                /\ thread'[t].email # "") =>
               IF \E i \in 1..Len(users) :
                      Lower(users[i].email) = thread'[t].email
               THEN /\ thread'[t].flash = "Email already registered."
                    /\ users' = users
               ELSE /\ thread'[t].flash = "Registration successful. You may login now."
                    /\ Len(users') = Len(users) + 1]_vars

C2_Witness ==
    \E t \in Threads :
        /\ thread[t].kind = "register"
        /\ thread[t].flash = "Email already registered."
        /\ Len(users) = 2

\* the row a request has committed is in its table, as the request wrote it
RowCommitted(r) ==
    IF r.kind = "create_loan"
    THEN /\ r.row_id \in 1..Len(loans)
         /\ loans[r.row_id].borrower_id = r.user
         /\ loans[r.row_id].emi = r.emi
    ELSE /\ r.row_id \in 1..Len(payments)
         /\ payments[r.row_id] = [loan_id |-> r.loan_id, amount |-> r.amount]

AfterCommit(r) ==
    \/ r.kind = "create_loan" /\ r.pc \in {"cl_notify", "done"} /\ r.row_id # 0
    \/ r.kind = "payment_entry" /\ r.pc \in {"pe_balance", "pe_notify", "done"}
           /\ r.row_id # 0

\* C3: in create-loan and payment-entry the dispatcher is invoked only by a
\* request whose loan or payment row is already committed, the dispatch step
\* changes neither loans nor payments whatever its outcome, and the row is
\* still in the table, unchanged, when the request finishes.
C3_CommitThenNotify ==
    /\ [](\A t \in Threads : AfterCommit(thread[t]) => RowCommitted(thread[t]))
    /\ [](\A t \in Threads : thread[t].notif.called => AfterCommit(thread[t]))
    /\ [][\A t \in Threads :
            (thread'[t].notif.called /\ ~thread[t].notif.called) =>
               /\ AfterCommit(thread[t])
               /\ RowCommitted(thread[t])
               /\ loans' = loans
               /\ payments' = payments]_vars

C3_Witness ==
    \E t \in Threads :
        /\ thread[t].pc = "done"
        /\ thread[t].kind = "create_loan"
        /\ thread[t].notif.called
        /\ ~thread[t].notif.success
        /\ thread[t].notif.transport = "exception"
        /\ RowCommitted(thread[t])

\* C4 (as amended): the dispatcher never raises; with notifications disabled it
\* returns (true, "SMS notifications disabled (test mode)"); with credentials
\* missing, or when the gateway call fails, it returns (false, reason).
C4_DispatcherResult ==
    \A t \in Threads :
        thread[t].notif.called =>
            /\ ~thread[t].notif.raised
            /\ IF ~SMS_NOTIFICATIONS_ENABLED
               THEN /\ thread[t].notif.success
                    /\ thread[t].notif.message = "SMS notifications disabled (test mode)"
               ELSE IF ~TWILIO_CONFIGURED \/ thread[t].notif.transport = "exception"
               THEN /\ ~thread[t].notif.success
                    /\ thread[t].notif.message # ""
               ELSE /\ thread[t].notif.success
                    /\ thread[t].notif.message = "SMS sent successfully"

C4_Witness ==
    \E t \in Threads :
        /\ thread[t].notif.called
        /\ ~SMS_NOTIFICATIONS_ENABLED
        /\ thread[t].notif.success
        /\ thread[t].kind = "payment_entry"

\* C4 (as claimed): the dispatcher never raises, and a disabled feature, missing
\* configuration and a transport failure are each returned as (false, reason).
C4_AllFailuresFalse ==
    \A t \in Threads :
        thread[t].notif.called =>
            /\ ~thread[t].notif.raised
            /\ (~SMS_NOTIFICATIONS_ENABLED \/ ~TWILIO_CONFIGURED
                    \/ thread[t].notif.transport = "exception")
                   => ~thread[t].notif.success

\* C5: calculate_emi(P, R, 0) raises ZeroDivisionError for every P and R and
\* returns nothing; a create-loan request with term 0 answers "Error
\* calculating EMI" and stores no loan, and a preview with term 0 returns an
\* error result.
C5_TermZero ==
    /\ \A p \in WidePrincipalInputs, r \in RateInputs, tie \in TieInputs :
            /\ ~calculate_emi(p, r, <<0>>, tie).ok
            /\ calculate_emi(p, r, <<0>>, tie).error = "ZeroDivisionError"
    /\ [](\A i \in 1..Len(loans) : loans[i].term_months # 0)
    /\ [](\A t \in Threads :
            (thread[t].term_months = <<0>> /\ thread[t].principal # <<>>
                /\ thread[t].annual_rate # <<>>) =>
               /\ thread[t].pc = "done"
               /\ thread[t].error = "ZeroDivisionError"
               /\ thread[t].row_id = 0
               /\ thread[t].kind = "create_loan" =>
                      thread[t].flash = "Error calculating EMI"
               /\ thread[t].kind = "calculate_emi" =>
                      thread[t].out = "json:error")
    /\ [][\A t \in Threads :
            (thread'[t] # thread[t] /\ thread'[t].term_months = <<0>>) =>
               loans' = loans]_vars

C5_Witness ==
    \E t \in Threads :
        /\ thread[t].kind = "create_loan"
        /\ thread[t].term_months = <<0>>
        /\ thread[t].annual_rate = <<60>>
        /\ thread[t].flash = "Error calculating EMI"

\* the preview on thread t was asked with P > 0, R >= 0 and n >= 1
ValidPreview(r) ==
    /\ r.kind = "calculate_emi"
    /\ r.principal # <<>> /\ r.annual_rate # <<>> /\ r.term_months # <<>>
    /\ r.principal[1] > 0
    /\ r.annual_rate[1] >= 0
    /\ r.term_months[1] >= 1

\* the exact installment is not half-way between two cents, so the rounded
\* value does not depend on how the float resolves the tie
NoTie(r) ==
    calculate_emi(r.principal, r.annual_rate, r.term_months, 0)
        = calculate_emi(r.principal, r.annual_rate, r.term_months, 1)

Inserted(r) ==
    /\ r.kind = "payment_entry"
    /\ r.pc \in {"pe_balance", "pe_notify", "done"}
    /\ r.row_id # 0

IsPrefix(a, b) ==
    /\ Len(a) <= Len(b)
    /\ \A i \in 1..Len(a) : b[i] = a[i]

\* C7: under any interleaving of concurrent authorized payment entries, each
\* request's payment is in the table exactly once: its INSERT adds exactly one
\* row, that row carries the request's loan and amount and belongs to no other
\* request, no other step adds, changes or removes a payment, and a request
\* answers "Payment recorded." only for a row that is there.
C7_EachPaymentOnce ==
    /\ [](\A t \in Threads :
            /\ Inserted(thread[t]) => RowCommitted(thread[t])
            /\ thread[t].flash = "Payment recorded." => Inserted(thread[t]))
    /\ [](\A t1, t2 \in Threads :
            (t1 # t2 /\ Inserted(thread[t1]) /\ Inserted(thread[t2])) =>
                thread[t1].row_id # thread[t2].row_id)
    /\ [][\/ payments' = payments
          \/ \E t \in Threads :
                /\ thread[t].pc = "pe_insert"
                /\ thread'[t].pc = "pe_balance"
                /\ Len(payments') = Len(payments) + 1
                /\ IsPrefix(payments, payments')
                /\ payments'[Len(payments')] =
                       [loan_id |-> thread[t].loan_id, amount |-> thread[t].amount]
                /\ \A u \in Threads \ {t} : thread'[u] = thread[u]]_vars

\* two requests for one loan, both recorded, one of them reporting a remaining
\* balance that misses the other's payment
C7_Witness ==
    \E t1, t2 \in Threads :
        /\ t1 # t2
        /\ thread[t1].pc = "done" /\ thread[t2].pc = "done"
        /\ thread[t1].flash = "Payment recorded."
        /\ thread[t2].flash = "Payment recorded."
        /\ thread[t1].loan_id = thread[t2].loan_id
        /\ thread[t1].remaining #
               Remaining(payments, thread[t1].loan_id, thread[t1].emi, thread[t1].term)
        /\ RowCommitted(thread[t1]) /\ RowCommitted(thread[t2])

\* C8: a finished request, also one ended by a store error, holds no open
\* database connection.
C8_ConnectionsReleased ==
    \A t \in Threads : thread[t].pc \in {"done", "error"} => thread[t].conns = 0

C10_NoBalanceCheck ==
    /\ [][\A t \in Threads :
            (thread[t].pc = "pe_insert" /\ thread'[t] # thread[t]
                /\ IsDate(thread[t].payment_date)) =>
               /\ thread'[t].pc = "pe_balance"
               /\ payments' = Append(payments,
                      [loan_id |-> thread[t].loan_id, amount |-> thread[t].amount])]_vars
    /\ [](\A t \in Threads :
            (thread[t].kind = "payment_entry" /\ thread[t].pc \in {"pe_notify", "done"}
                /\ thread[t].row_id # 0) =>
               LET payable == loans[thread[t].loan_id].emi
                                  * loans[thread[t].loan_id].term_months
                   paid == total_paid(payments, thread[t].loan_id)
               IN /\ thread[t].remaining = payable - paid
                  /\ (paid - thread[t].amount >= payable /\ thread[t].amount > 0)
                         => thread[t].remaining < 0
                  /\ thread[t].pc = "done" => thread[t].flash = "Payment recorded.")

C10_Witness ==
    \E t \in Threads :
        /\ thread[t].pc = "done"
        /\ thread[t].flash = "Payment recorded."
        /\ thread[t].remaining < 0
        /\ total_paid(payments, thread[t].loan_id) - thread[t].amount
               >= loans[thread[t].loan_id].emi * loans[thread[t].loan_id].term_months
        /\ RowCommitted(thread[t])

\* the orders of n rows, and a table with its rows in the order p
RowOrders(n) ==
    {p \in [1..n -> 1..n] : \A i, j \in 1..n : p[i] = p[j] => i = j}

Reordered(ps, p) == [i \in 1..Len(ps) |-> ps[p[i]]]

\* the amounts of the rows of loan_id added up from the first row to the last
RECURSIVE FoldAmounts(_, _)
FoldAmounts(ps, loan_id) ==
    IF ps = <<>> THEN 0
    ELSE (IF Head(ps).loan_id = loan_id THEN Head(ps).amount ELSE 0)
         + FoldAmounts(Tail(ps), loan_id)

\* the record r holds totals computed by loan_view or by payment_entry
ShowsBalance(r) ==
    \/ r.kind = "loan_view" /\ r.out = "page:loan-view"
    \/ r.kind = "payment_entry" /\ r.pc = "pe_notify"
    \/ r.kind = "payment_entry" /\ r.pc = "done" /\ r.out = "redirect:loan_view"

RegisterStep ==
    \E t \in Threads : thread'[t] # thread[t] /\ thread'[t].kind = "register"

\* C12: an account created by register_borrower has role 'user'; no step of the
\* application or of the reset tool removes an account or changes the role of
\* an existing one; the reset tool, the only other writer of the users table,
\* either inserts one account with role 'admin' or changes the password and
\* email, and nothing else, of one existing admin.
C12_RoleImmutable ==
    [][/\ Len(users') >= Len(users)
       /\ Len(users') <= Len(users) + 1
       /\ \A i \in 1..Len(users) : users'[i].role = users[i].role
       /\ (Len(users') > Len(users) /\ RegisterStep) =>
              users'[Len(users')].role = "user"
       /\ (Len(users') > Len(users) /\ ~RegisterStep) =>
              users'[Len(users')].role = "admin"
       /\ RegisterStep => \A i \in 1..Len(users) : users'[i] = users[i]
       /\ \A i \in 1..Len(users) :
              users'[i] # users[i] =>
                  /\ users[i].role = "admin"
                  /\ users'[i].name = users[i].name
                  /\ \A j \in 1..Len(users) : j # i => users'[j] = users[j]]_vars

\* a registered borrower next to an admin whose email the reset tool has set
C12_Witness ==
    \E i, j \in 1..Len(users) :
        /\ users[i].role = "user"
        /\ users[i].password_hash = generate_password_hash("pw1")
        /\ users[j].role = "admin"
        /\ users[j].name = "Administrator"
        /\ users[j].email = "a@x.io"

\* C13: every row of the loans table has a term of at least one month, so a
\* create_loan request with a term of zero or less stores nothing.
C13_TermPositive ==
    \A i \in 1..Len(loans) : loans[i].term_months >= 1

LedgerKinds == {"create_loan", "payment_entry"}

\* the account u is the one a login with (email_in, password) on the endpoint
\* of the given role is entitled to
GoodCredentials(u, email_in, password, role) ==
    /\ u \in 1..Len(users)
    /\ users[u].role = role
    /\ Collate(users[u].email) = Collate(Lower(Strip(email_in)))
    /\ check_password_hash(users[u].password_hash, password)

\* C14: a create_loan or payment_entry request made while no session holds an
\* account is answered with the redirect to the login page and writes nothing;
\* every row of loans and payments is written by a request that found an
\* account in its session; logout leaves the session without an account, and a
\* session comes to hold an account only by a login on the endpoint of that
\* account's role with that account's password: a login with a wrong password,
\* or on the endpoint of the other role, leaves the session as it was.
C14_NoLedgerWriteWithoutSession ==
    /\ [](\A t \in Threads :
            thread[t].pc \in {"cl_notify", "pe_insert", "pe_balance", "pe_notify"}
                => thread[t].user \in 1..Len(users))
    /\ [][\A t \in Threads :
            (/\ thread[t].pc = "idle"
             /\ thread'[t].kind \in LedgerKinds
             /\ \A c \in Clients : session[c].user_id = 0) =>
                /\ thread'[t].pc = "done"
                /\ thread'[t].out = "redirect:login"
                /\ loans' = loans
                /\ payments' = payments]_vars
    /\ [][(loans' # loans \/ payments' # payments) =>
            \E t \in Threads :
                /\ thread'[t] # thread[t]
                /\ thread'[t].kind \in LedgerKinds
                /\ thread'[t].user \in 1..Len(users)
                /\ thread[t].pc = "idle" =>
                       \E c \in Clients : session[c].user_id = thread'[t].user]_vars
    /\ [][\A t \in Threads, c \in Clients :
            logout(t, c) => session'[c].user_id = 0]_vars
    /\ [][\A c \in Clients :
            (session'[c] # session[c] /\ session'[c].user_id # 0) =>
                \E t \in Threads, p \in LoginPasswords :
                    \/ \E e \in EmailInputs :
                          /\ user_login(t, c, e, p)
                          /\ GoodCredentials(session'[c].user_id, e, p, "user")
                    \/ \E e \in AdminEmails :
                          /\ admin_login(t, c, e, p)
                          /\ GoodCredentials(session'[c].user_id, e, p, "admin")]_vars
    /\ [][\A t \in Threads, c \in Clients, p \in LoginPasswords :
            /\ \A e \in EmailInputs :
                  (/\ user_login(t, c, e, p)
                   /\ ~\E u \in 1..Len(users) : GoodCredentials(u, e, p, "user")) =>
                      /\ session' = session
                      /\ thread'[t].out = "redirect:login"
            /\ \A e \in AdminEmails :
                  (/\ admin_login(t, c, e, p)
                   /\ ~\E u \in 1..Len(users) : GoodCredentials(u, e, p, "admin")) =>
                      /\ session' = session
                      /\ thread'[t].out = "redirect:login"]_vars

\* with a loan in the ledger and nobody logged in any more, a payment entry or
\* a create-loan request has been sent to the login page
C14_Witness ==
    \E t \in Threads :
        /\ thread[t].kind \in LedgerKinds
        /\ thread[t].out = "redirect:login"
        /\ \A c \in Clients : session[c].user_id = 0
        /\ Len(loans) >= 1
====
